---------------------------- MODULE Spec2Model ----------------------------
(***************************************************************************)
(* A model of the chirp CHIP-8 core: the two Instruction -> OpCode         *)
(* encoders (src/opcode.rs and src/instructions.rs), the opcode decoder    *)
(* described by the design, and the Memory store (src/memory.rs).          *)
(*                                                                         *)
(* The codec is a family of pure functions: Init draws the input (an       *)
(* Instruction, or a raw 16-bit word) and the actions apply an encoder or  *)
(* the decoder to it.  Memory is a state machine of its own (SpecMem); its *)
(* constructors and load operations, with Register::default, make up       *)
(* SpecLoad.  The execution engine described by the design, stepping the   *)
(* Register bank of src/register.rs, is SpecEngine.                        *)
(***************************************************************************)
EXTENDS Integers, Sequences, FiniteSets, TLC

VARIABLES
    instr,    \* the Instruction given to an encoder, <<>> when there is none
    encoder,  \* which constructor produced `opcode`: "none", "new" (OpCode::new),
              \* "opcode" (opcode.rs From) or "instructions" (instructions.rs From)
    opcode,   \* the u16 held by the OpCode value, -1 before one is constructed
    decoded,  \* the decoder's result on `opcode`, <<>> before it ran
    memory,   \* Memory.memory: the backing Vec<u8>, as its length and its
              \* non-zero bytes (index -> byte); every other byte is 0
    call,     \* the last Memory operation called, with its argument
    result,   \* the Result it returned
    register, \* the Register bank: v, i, dt, st, pc, sp, stack
    engine,   \* the ExecutionEngine: its state, the error it reported, the
              \* register a blocking key read waits to fill
    script    \* the instructions the engine's fetches yield, in order, and
              \* the position of the next one

cpuVars == <<register, engine, script>>

vars == <<instr, encoder, opcode, decoded, memory, call, result, cpuVars>>

(***************************************************************************)
(* Operand ranges of the instruction word's fields.                        *)
(***************************************************************************)
Nibble == 0 .. 15      \* x, y, k: 4 bits
Byte   == 0 .. 255     \* kk: 8 bits
Addr   == 0 .. 4095    \* kkk: 12 bits
Word   == 0 .. 65535   \* u16

(***************************************************************************)
(* enum Instruction.  A value is the tuple <<variant, operands...>>.       *)
(* (instructions.rs spells one variant SkipNotEqualImediate; opcode.rs     *)
(* refers to it as SkipNotEqualImmediate, the name used here.)             *)
(***************************************************************************)
NoOperandOps == {"ScrollRight", "ScrollLeft", "Exit", "LowRes", "HighRes",
                 "ClearScreen", "Return"}
AddrOps      == {"Jump", "Call", "LoadI", "JumpImmediate"}
RegByteOps   == {"SkipEqualImmediate", "SkipNotEqualImmediate", "LoadImmediate",
                 "AddImmediate", "Random"}
RegRegOps    == {"SkipEqual", "Load", "Or", "And", "Xor", "Add", "Sub",
                 "ShiftRight", "SubNumeric", "ShiftLeft", "SkipNotEqual"}
RegOps       == {"SkipOnKey", "SkipNotOnKey", "LoadDTIntoV", "LoadKey",
                 "LoadVIntoDT", "LoadVIntoST", "AddI", "LoadSpriteIntoI",
                 "LoadBCDIntoI", "LoadVIntoMem", "LoadMemIntoV"}

Instruction ==
    {<<n>> : n \in NoOperandOps}
    \cup {<<"ScrollDown", k>> : k \in Nibble}
    \cup {<<n, a>> : n \in AddrOps, a \in Addr}
    \cup {<<n, x, kk>> : n \in RegByteOps, x \in Nibble, kk \in Byte}
    \cup {<<n, x, y>> : n \in RegRegOps, x \in Nibble, y \in Nibble}
    \cup {<<"Draw", x, y, k>> : x \in Nibble, y \in Nibble, k \in Nibble}
    \cup {<<n, x>> : n \in RegOps, x \in Nibble}

(***************************************************************************)
(* opcode[lo..hi].store(value) on the Lsb0 bit view of the u16: index 0 is *)
(* the least significant bit, and the low (hi - lo) bits of value replace  *)
(* bits lo .. hi-1 of the word.                                            *)
(***************************************************************************)
\* store shifting the whole value into place, its high bits not masked off
Store_Unmasked(op, lo, hi, value) ==
    LET below == op % (2 ^ lo)
        above == op \div (2 ^ hi)
    IN  (above * (2 ^ hi) + value * (2 ^ lo) + below) % (2 ^ 16)

Store(op, lo, hi, value) ==
    LET below == op % (2 ^ lo)
        above == op \div (2 ^ hi)
        field == value % (2 ^ (hi - lo))
    IN  above * (2 ^ hi) + field * (2 ^ lo) + below

\* OpCode::default(): derive(Default) on OpCode(u16)
OpCodeDefault == 0

\* OpCode::new
OpCodeNew(w) == w

(***************************************************************************)
(* The layout helpers of src/opcode.rs.                                    *)
(***************************************************************************)
oooo(w) == Store(OpCodeDefault, 0, 16, w)

\* oook with its prefix stored at bits 0..11 instead of 4..15
oook_PrefixAtBitZero(ooo, k) == Store(Store(OpCodeDefault, 0, 12, ooo), 0, 4, k)

oook(ooo, k) == Store(Store(OpCodeDefault, 4, 16, ooo), 0, 4, k)

oxoo(o, x, oo) ==
    Store(Store(Store(OpCodeDefault, 12, 16, o), 8, 12, x), 0, 8, oo)

\* oxyo with the two register fields exchanged
oxyo_SwappedRegisters(om, x, y, ol) ==
    Store(Store(Store(Store(OpCodeDefault, 12, 16, om), 8, 12, y), 4, 8, x), 0, 4, ol)

oxyo(om, x, y, ol) ==
    Store(Store(Store(Store(OpCodeDefault, 12, 16, om), 8, 12, x), 4, 8, y), 0, 4, ol)

\* okkk storing only the low byte of the address
okkk_ByteAddress(o, kkk) == Store(Store(OpCodeDefault, 12, 16, o), 0, 8, kkk)

okkk(o, kkk) == Store(Store(OpCodeDefault, 12, 16, o), 0, 12, kkk)

oxkk(o, x, kk) ==
    Store(Store(Store(OpCodeDefault, 12, 16, o), 8, 12, x), 0, 8, kk)

oxyk(o, x, y, k) ==
    Store(Store(Store(Store(OpCodeDefault, 12, 16, o), 8, 12, x), 4, 8, y), 0, 4, k)

(***************************************************************************)
(* The layout helpers of src/instructions.rs (its own OpCode type).        *)
(***************************************************************************)
instructions_oooo(w) == Store(OpCodeDefault, 0, 16, w)

instructions_oook(ooo, k) == Store(Store(OpCodeDefault, 4, 16, ooo), 0, 4, k)

instructions_oxoo(o, x, oo) ==
    Store(Store(Store(OpCodeDefault, 8, 16, oo), 4, 8, x), 0, 4, o)

instructions_oxyo(om, x, y, ol) ==
    Store(Store(Store(Store(OpCodeDefault, 12, 16, om), 8, 12, x), 4, 8, y), 0, 4, ol)

instructions_okkk(o, kkk) == Store(Store(OpCodeDefault, 12, 16, o), 0, 12, kkk)

instructions_oxkk(o, x, kk) ==
    Store(Store(Store(OpCodeDefault, 12, 16, o), 8, 12, x), 0, 8, kk)

instructions_oxyk(o, x, y, k) ==
    Store(Store(Store(Store(OpCodeDefault, 12, 16, o), 8, 12, x), 4, 8, y), 0, 4, k)

(***************************************************************************)
(* impl From<Instruction> for OpCode, src/opcode.rs.                       *)
(***************************************************************************)
From(i) ==
    LET n == i[1] IN
    CASE n = "ScrollDown"  -> oook(\h00C, i[2])
      [] n = "ScrollRight" -> oooo(\h00FB)
      [] n = "ScrollLeft"  -> oooo(\h00FC)
      [] n = "Exit"        -> oooo(\h00FD)
      [] n = "LowRes"      -> oooo(\h00FE)
      [] n = "HighRes"     -> oooo(\h00FF)
      [] n = "ClearScreen" -> oooo(\h00E0)
      [] n = "Return"      -> oooo(\h00EE)
      [] n = "Jump"        -> okkk(\h1, i[2])
      [] n = "Call"        -> okkk(\h2, i[2])
      [] n = "SkipEqualImmediate"    -> oxkk(\h3, i[2], i[3])
      [] n = "SkipNotEqualImmediate" -> oxkk(\h4, i[2], i[3])
      [] n = "SkipEqual"     -> oxyo(\h5, i[2], i[3], \h0)
      [] n = "LoadImmediate" -> oxkk(\h6, i[2], i[3])
      [] n = "AddImmediate"  -> oxkk(\h7, i[2], i[3])
      [] n = "Load"          -> oxyo(\h8, i[2], i[3], \h0)
      [] n = "Or"            -> oxyo(\h8, i[2], i[3], \h1)
      [] n = "And"           -> oxyo(\h8, i[2], i[3], \h2)
      [] n = "Xor"           -> oxyo(\h8, i[2], i[3], \h3)
      [] n = "Add"           -> oxyo(\h8, i[2], i[3], \h4)
      [] n = "Sub"           -> oxyo(\h8, i[2], i[3], \h5)
      [] n = "ShiftRight"    -> oxyo(\h8, i[2], i[3], \h6)
      [] n = "SubNumeric"    -> oxyo(\h8, i[2], i[3], \h7)
      [] n = "ShiftLeft"     -> oxyo(\h8, i[2], i[3], \hE)
      [] n = "SkipNotEqual"  -> oxyo(\h9, i[2], i[3], \h0)
      [] n = "LoadI"         -> okkk(\hA, i[2])
      [] n = "JumpImmediate" -> okkk(\hB, i[2])
      [] n = "Random"        -> oxkk(\hC, i[2], i[3])
      [] n = "Draw"          -> oxyk(\hD, i[2], i[3], i[4])
      [] n = "SkipOnKey"     -> oxoo(\hE, i[2], \h9E)
      [] n = "SkipNotOnKey"  -> oxoo(\hE, i[2], \hA1)
      [] n = "LoadDTIntoV"   -> oxoo(\hF, i[2], \h07)
      [] n = "LoadKey"       -> oxoo(\hF, i[2], \h0A)
      [] n = "LoadVIntoDT"   -> oxoo(\hF, i[2], \h15)
      [] n = "LoadVIntoST"   -> oxoo(\hF, i[2], \h18)
      [] n = "AddI"          -> oxoo(\hF, i[2], \h1E)
      [] n = "LoadSpriteIntoI" -> oxoo(\hF, i[2], \h29)
      [] n = "LoadBCDIntoI"  -> oxoo(\hF, i[2], \h33)
      [] n = "LoadVIntoMem"  -> oxoo(\hF, i[2], \h55)
      [] n = "LoadMemIntoV"  -> oxoo(\hF, i[2], \h65)

(***************************************************************************)
(* impl From<Instruction> for OpCode, src/instructions.rs.                 *)
(***************************************************************************)
instructions_From(i) ==
    LET n == i[1] IN
    CASE n = "ScrollDown"  -> instructions_oook(\h00C, i[2])
      [] n = "ScrollRight" -> instructions_oooo(\h00FB)
      [] n = "ScrollLeft"  -> instructions_oooo(\h00FC)
      [] n = "Exit"        -> instructions_oooo(\h00FD)
      [] n = "LowRes"      -> instructions_oooo(\h00FE)
      [] n = "HighRes"     -> instructions_oooo(\h00FF)
      [] n = "ClearScreen" -> instructions_oooo(\h00E0)
      [] n = "Return"      -> instructions_oooo(\h00E0)
      [] n = "Jump"        -> instructions_okkk(\h1, i[2])
      [] n = "Call"        -> instructions_okkk(\h2, i[2])
      [] n = "SkipEqualImmediate"    -> instructions_oxkk(\h3, i[2], i[3])
      [] n = "SkipNotEqualImmediate" -> instructions_oxkk(\h4, i[2], i[3])
      [] n = "SkipEqual"     -> instructions_oxyo(\h5, i[2], i[3], \h0)
      [] n = "LoadImmediate" -> instructions_oxkk(\h6, i[2], i[3])
      [] n = "AddImmediate"  -> instructions_oxkk(\h7, i[2], i[3])
      [] n = "Load"          -> instructions_oxyo(\h8, i[2], i[3], \h0)
      [] n = "Or"            -> instructions_oxyo(\h8, i[2], i[3], \h1)
      [] n = "And"           -> instructions_oxyo(\h8, i[2], i[3], \h2)
      [] n = "Xor"           -> instructions_oxyo(\h8, i[2], i[3], \h3)
      [] n = "Add"           -> instructions_oxyo(\h8, i[2], i[3], \h4)
      [] n = "Sub"           -> instructions_oxyo(\h8, i[2], i[3], \h5)
      [] n = "ShiftRight"    -> instructions_oxyo(\h8, i[2], i[3], \h6)
      [] n = "SubNumeric"    -> instructions_oxyo(\h8, i[2], i[3], \h7)
      [] n = "ShiftLeft"     -> instructions_oxyo(\h8, i[2], i[3], \hE)
      [] n = "SkipNotEqual"  -> instructions_oxyo(\h9, i[2], i[3], \h0)
      [] n = "LoadI"         -> instructions_okkk(\hA, i[2])
      [] n = "JumpImmediate" -> instructions_okkk(\hB, i[2])
      [] n = "Random"        -> instructions_oxkk(\hC, i[2], i[3])
      [] n = "Draw"          -> instructions_oxyk(\hD, i[2], i[3], i[4])
      [] n = "SkipOnKey"     -> instructions_oxoo(\hE, i[2], \h9E)
      [] n = "SkipNotOnKey"  -> instructions_oxoo(\hE, i[2], \hA1)
      [] n = "LoadDTIntoV"   -> instructions_oxoo(\hF, i[2], \h07)
      [] n = "LoadKey"       -> instructions_oxoo(\hF, i[2], \h0A)
      [] n = "LoadVIntoDT"   -> instructions_oxoo(\hF, i[2], \h15)
      [] n = "LoadVIntoST"   -> instructions_oxoo(\hF, i[2], \h18)
      [] n = "AddI"          -> instructions_oxoo(\hF, i[2], \h1E)
      [] n = "LoadSpriteIntoI" -> instructions_oxoo(\hF, i[2], \h29)
      [] n = "LoadBCDIntoI"  -> instructions_oxoo(\hF, i[2], \h33)
      [] n = "LoadVIntoMem"  -> instructions_oxoo(\hF, i[2], \h55)
      [] n = "LoadMemIntoV"  -> instructions_oxoo(\hF, i[2], \h65)

(***************************************************************************)
(* The decoder.  The sources hold no decode function; this one follows the *)
(* design (spec.md 4.1) and the opcode table documented at the head of     *)
(* src/instructions.rs: dispatch on the top nibble, then on the nested     *)
(* sub-fields; a pattern outside the table is the error "unsupported       *)
(* opcode" carrying the word.                                              *)
(***************************************************************************)
Load(op, lo, hi) == (op \div (2 ^ lo)) % (2 ^ (hi - lo))

DecodeError(w) == <<"DecodeError", w>>

decode0(w) ==
    LET kk == Load(w, 0, 8)
        k  == Load(w, 0, 4)
    IN  IF Load(w, 8, 12) # 0 THEN DecodeError(w)
        ELSE IF Load(w, 4, 8) = \hC THEN <<"ScrollDown", k>>
        ELSE CASE kk = \hFB -> <<"ScrollRight">>
               [] kk = \hFC -> <<"ScrollLeft">>
               [] kk = \hFD -> <<"Exit">>
               [] kk = \hFE -> <<"LowRes">>
               [] kk = \hFF -> <<"HighRes">>
               [] kk = \hE0 -> <<"ClearScreen">>
               [] kk = \hEE -> <<"Return">>
               [] OTHER -> DecodeError(w)

\* decode8 falling through to an instruction instead of the error
decode8_DefaultInstruction(w) ==
    LET x == Load(w, 8, 12)
        y == Load(w, 4, 8)
        k == Load(w, 0, 4)
    IN  CASE k = \h0 -> <<"Load", x, y>>
          [] k = \h1 -> <<"Or", x, y>>
          [] k = \h2 -> <<"And", x, y>>
          [] k = \h3 -> <<"Xor", x, y>>
          [] k = \h4 -> <<"Add", x, y>>
          [] k = \h5 -> <<"Sub", x, y>>
          [] k = \h6 -> <<"ShiftRight", x, y>>
          [] k = \h7 -> <<"SubNumeric", x, y>>
          [] OTHER -> <<"ShiftLeft", x, y>>

decode8(w) ==
    LET x == Load(w, 8, 12)
        y == Load(w, 4, 8)
        k == Load(w, 0, 4)
    IN  CASE k = \h0 -> <<"Load", x, y>>
          [] k = \h1 -> <<"Or", x, y>>
          [] k = \h2 -> <<"And", x, y>>
          [] k = \h3 -> <<"Xor", x, y>>
          [] k = \h4 -> <<"Add", x, y>>
          [] k = \h5 -> <<"Sub", x, y>>
          [] k = \h6 -> <<"ShiftRight", x, y>>
          [] k = \h7 -> <<"SubNumeric", x, y>>
          [] k = \hE -> <<"ShiftLeft", x, y>>
          [] OTHER -> DecodeError(w)

decodeE(w) ==
    LET x  == Load(w, 8, 12)
        kk == Load(w, 0, 8)
    IN  CASE kk = \h9E -> <<"SkipOnKey", x>>
          [] kk = \hA1 -> <<"SkipNotOnKey", x>>
          [] OTHER -> DecodeError(w)

decodeF(w) ==
    LET x  == Load(w, 8, 12)
        kk == Load(w, 0, 8)
    IN  CASE kk = \h07 -> <<"LoadDTIntoV", x>>
          [] kk = \h0A -> <<"LoadKey", x>>
          [] kk = \h15 -> <<"LoadVIntoDT", x>>
          [] kk = \h18 -> <<"LoadVIntoST", x>>
          [] kk = \h1E -> <<"AddI", x>>
          [] kk = \h29 -> <<"LoadSpriteIntoI", x>>
          [] kk = \h33 -> <<"LoadBCDIntoI", x>>
          [] kk = \h55 -> <<"LoadVIntoMem", x>>
          [] kk = \h65 -> <<"LoadMemIntoV", x>>
          [] OTHER -> DecodeError(w)

decode(w) ==
    LET o   == Load(w, 12, 16)
        x   == Load(w, 8, 12)
        y   == Load(w, 4, 8)
        k   == Load(w, 0, 4)
        kk  == Load(w, 0, 8)
        kkk == Load(w, 0, 12)
    IN  CASE o = \h0 -> decode0(w)
          [] o = \h1 -> <<"Jump", kkk>>
          [] o = \h2 -> <<"Call", kkk>>
          [] o = \h3 -> <<"SkipEqualImmediate", x, kk>>
          [] o = \h4 -> <<"SkipNotEqualImmediate", x, kk>>
          [] o = \h5 -> IF k = 0 THEN <<"SkipEqual", x, y>> ELSE DecodeError(w)
          [] o = \h6 -> <<"LoadImmediate", x, kk>>
          [] o = \h7 -> <<"AddImmediate", x, kk>>
          [] o = \h8 -> decode8(w)
          [] o = \h9 -> IF k = 0 THEN <<"SkipNotEqual", x, y>> ELSE DecodeError(w)
          [] o = \hA -> <<"LoadI", kkk>>
          [] o = \hB -> <<"JumpImmediate", kkk>>
          [] o = \hC -> <<"Random", x, kk>>
          [] o = \hD -> <<"Draw", x, y, k>>
          [] o = \hE -> decodeE(w)
          [] o = \hF -> decodeF(w)

(***************************************************************************)
(* Memory, src/memory.rs.                                                  *)
(***************************************************************************)
MEMORY_SIZE  == 4096
MEMORY_START == 512

\* a Vec allocated with the capacity MEMORY_SIZE but never filled:
\* Vec::with_capacity in place of vec![0; MEMORY_SIZE]
MemoryNew_Unfilled == [len |-> 0, nz |-> <<>>]

\* Memory::new / Memory::default: vec![0; MEMORY_SIZE]
MemoryNew == [len |-> MEMORY_SIZE, nz |-> <<>>]

\* the indices of the Vec m
Indices(m) == 0 .. m.len - 1

\* m[a], for an index a of the Vec
ByteAt(m, a) == IF a \in DOMAIN m.nz THEN m.nz[a] ELSE 0

\* the Vec m after m[a] = b, for an index a of the Vec
SetByte(m, a, b) ==
    LET keep == IF b = 0 THEN DOMAIN m.nz \ {a} ELSE DOMAIN m.nz \cup {a}
    IN  [m EXCEPT !.nz = [x \in keep |-> IF x = a THEN b ELSE m.nz[x]]]

NoCall   == <<"None">>
NoResult == <<"None">>

OutOfBoundsAccess(idx) == <<"Err", "OutOfBoundsAccess", idx>>

\* check_idx with the inclusive range MEMORY_START ..= MEMORY_SIZE
check_idx_InclusiveEnd(idx) ==
    IF ~(idx \in MEMORY_START .. MEMORY_SIZE)
    THEN OutOfBoundsAccess(idx)
    ELSE <<"Ok", idx>>

\* check_idx reducing the index modulo the store's size before testing it
check_idx_Wrapping(idx) ==
    LET i == idx % MEMORY_SIZE IN
    IF ~(i \in MEMORY_START .. MEMORY_SIZE - 1)
    THEN OutOfBoundsAccess(i)
    ELSE <<"Ok", i>>

\* Memory::check_idx
check_idx(idx) ==
    IF ~(idx \in MEMORY_START .. MEMORY_SIZE - 1)
    THEN OutOfBoundsAccess(idx)
    ELSE <<"Ok", idx>>

(***************************************************************************)
(* The addresses and bytes the Memory operations are called with: every    *)
(* address within MaxDelta of a boundary of the store (0, MEMORY_START,    *)
(* MEMORY_SIZE) and of two addresses that alias MEMORY_START when          *)
(* truncated to 12 or to 16 bits; the bytes 0 .. MaxVal and 255.           *)
(***************************************************************************)
MaxDelta == 1
MaxVal   == 1

Boundaries == {0, MEMORY_START, MEMORY_SIZE, MEMORY_SIZE + MEMORY_START,
               65536 + MEMORY_START}
ProbeAddr  == {a \in {b + d : b \in Boundaries, d \in (0 - MaxDelta) .. MaxDelta} : a >= 0}
ProbeByte  == (0 .. MaxVal) \cup {255}

\* self.memory.get_unchecked(idx): reading outside the Vec is undefined
\* behaviour, any byte may come back
get_unchecked(idx) ==
    IF idx \in Indices(memory) THEN {ByteAt(memory, idx)} ELSE Byte

\* Memory::get
Get(idx) ==
    /\ call' = <<"get", idx>>
    /\ LET c == check_idx(idx) IN
         IF c[1] = "Err"
         THEN result' = c
         ELSE \E b \in get_unchecked(c[2]) : result' = <<"Ok", c[2], b>>
    /\ UNCHANGED <<instr, encoder, opcode, decoded, memory, cpuVars>>

\* Memory::get_mut: the Ok result is a mutable reference to memory[idx]
GetMut(idx) ==
    /\ call' = <<"get_mut", idx>>
    /\ LET c == check_idx(idx) IN
         IF c[1] = "Err"
         THEN result' = c
         ELSE result' = <<"OkMut", c[2]>>
    /\ UNCHANGED <<instr, encoder, opcode, decoded, memory, cpuVars>>

\* *r = b through the reference r returned by get_mut; a reference outside
\* the Vec (get_unchecked_mut past the end) is undefined behaviour: the
\* write may land on any byte of the store or on none
StoreRef(b) ==
    /\ result[1] = "OkMut"
    /\ call' = <<"store", result[2], b>>
    /\ result' = NoResult
    /\ IF result[2] \in Indices(memory)
       THEN memory' = SetByte(memory, result[2], b)
       ELSE \E a \in ProbeAddr :
               memory' = IF a \in Indices(memory) THEN SetByte(memory, a, b) ELSE memory
    /\ UNCHANGED <<instr, encoder, opcode, decoded, cpuVars>>

(***************************************************************************)
(* The Register bank (src/register.rs).  The arrays v and stack are        *)
(* functions over their index ranges: `[u8; 0xF]` and `[u16; 0xF]` have    *)
(* 0xF = 15 elements, the indices 0 .. 14.                                 *)
(***************************************************************************)
VIndices     == 0 .. \hF - 1
StackIndices == 0 .. \hF - 1

\* #[derive(Default)]: every field is the default of its type, 0
RegisterDefault ==
    [v     |-> [x \in VIndices |-> 0],
     i     |-> 0,
     dt    |-> 0,
     st    |-> 0,
     pc    |-> 0,
     sp    |-> 0,
     stack |-> [l \in StackIndices |-> 0]]

\* The engine at machine reset: Ready, no error reported, no key awaited.
EngineNew == [state |-> "Ready", error |-> <<"None">>, awaiting |-> <<>>]

NoScript == [program |-> <<>>, next |-> 1]

(***************************************************************************)
(* Loading a program.  A buffer, or the content of a file, is given by its *)
(* length n; its bytes are 0 except the first one, the last one and the    *)
(* last one that fits into the program region, which carry a value that    *)
(* depends on their position.  The lengths are those within MaxDelta of 0, *)
(* of MEMORY_START, of the size of the program region and of MEMORY_SIZE.  *)
(***************************************************************************)
LenBoundaries == {0, MEMORY_START, MEMORY_SIZE - MEMORY_START, MEMORY_SIZE}
ProbeLen == {n \in {b + d : b \in LenBoundaries, d \in (0 - MaxDelta) .. MaxDelta} : n >= 0}

\* the positions of the non-zero bytes of the buffer of length n
Marks(n) == {i \in {0, n - 1, MEMORY_SIZE - MEMORY_START - 1} : i >= 0 /\ i < n}

\* buf[i], for i < n
BufByte(n, i) == IF i \in Marks(n) THEN (i % 255) + 1 ELSE 0

\* the Vec m after m[lo .. lo + k] was overwritten with the first k bytes
\* of the buffer of length n
CopyFromSlice(m, lo, k, n) ==
    LET dst  == lo .. lo + k - 1
        keep == (DOMAIN m.nz \ dst) \cup {lo + i : i \in {j \in Marks(n) : j < k}}
    IN  [m EXCEPT !.nz = [a \in keep |-> IF a \in dst THEN BufByte(n, a - lo)
                                                    ELSE m.nz[a]]]

Panic(what) == <<"Panic", what>>
Aborted == result[1] = "Panic"

\* <Memory as io::Write>::write on the Vec m with a buffer of length n: the
\* Vec it leaves and what the call returns.  Indexing a Vec with lo..hi
\* panics when lo > hi or hi > len; copy_from_slice panics when the two
\* slices differ in length.
write(m, n) ==
    LET buf_len        == n
        writeable_size == MEMORY_SIZE - MEMORY_START
        data_length    == IF buf_len < writeable_size THEN buf_len ELSE writeable_size
        lo             == MEMORY_START
        hi             == data_length
    IN  IF lo > hi
        THEN [memory |-> m, result |-> Panic("slice index starts after its end")]
        ELSE IF hi > m.len
        THEN [memory |-> m, result |-> Panic("range end index out of range")]
        ELSE IF hi - lo # buf_len
        THEN [memory |-> m, result |-> Panic("copy_from_slice: lengths differ")]
        ELSE [memory |-> CopyFromSlice(m, lo, buf_len, n),
              result |-> <<"Ok", data_length>>]

\* memory.write(buf) on the Memory of the program
Write(n) ==
    /\ ~Aborted
    /\ call' = <<"write", n>>
    /\ memory' = write(memory, n).memory
    /\ result' = write(memory, n).result
    /\ UNCHANGED <<instr, encoder, opcode, decoded, cpuVars>>

\* Memory::from(buf): a new Memory, written with buf; the Result of write
\* is dropped.  A panic inside leaves the program without the new Memory.
FromSlice(n) ==
    /\ ~Aborted
    /\ call' = <<"from", n>>
    /\ LET w == write(MemoryNew, n) IN
         IF w.result[1] = "Panic"
         THEN result' = w.result /\ memory' = memory
         ELSE result' = <<"Memory">> /\ memory' = w.memory
    /\ UNCHANGED <<instr, encoder, opcode, decoded, cpuVars>>

\* f.read(&mut memory.memory[MEMORY_START..]): one read of a file of n
\* bytes into a slice of `room` bytes returns how many bytes it stored; it
\* may store fewer than fit, and none only at the end of the file
ReadCounts(n, room) ==
    LET most == IF n < room THEN n ELSE room
    IN  {k \in most - MaxDelta .. most : k >= 0 /\ (k = 0 => most = 0)}

\* try_from reading into the whole Vec, memory.memory[0..], not into the
\* program region
try_from_WholeStore(n) ==
    {[memory |-> memory, result |-> <<"Err", "LoadFile">>]}
    \cup {[memory |-> CopyFromSlice(MemoryNew, 0, k, n),
           result |-> <<"Ok", "Memory">>] :
              k \in ReadCounts(n, MemoryNew.len)}

\* Memory::try_from(f: File), for a file of n bytes
try_from(n) ==
    {[memory |-> memory, result |-> <<"Err", "LoadFile">>]}
    \cup {[memory |-> CopyFromSlice(MemoryNew, MEMORY_START, k, n),
           result |-> <<"Ok", "Memory">>] :
              k \in ReadCounts(n, MemoryNew.len - MEMORY_START)}

TryFromFile(n) ==
    /\ ~Aborted
    /\ call' = <<"try_from(File)", n>>
    /\ \E r \in try_from(n) : memory' = r.memory /\ result' = r.result
    /\ UNCHANGED <<instr, encoder, opcode, decoded, cpuVars>>

\* Memory::try_from(p: &Path) and Memory::try_from(s: &str): File::open
\* fails, or the file of n bytes it opened is loaded
TryFromPath(n) ==
    /\ ~Aborted
    /\ call' = <<"try_from(Path)", n>>
    /\ \/ memory' = memory /\ result' = <<"Err", "OpenFile">>
       \/ \E r \in try_from(n) : memory' = r.memory /\ result' = r.result
    /\ UNCHANGED <<instr, encoder, opcode, decoded, cpuVars>>

\* Memory::new / Memory::default replacing the Memory of the program
MemoryDefault ==
    /\ ~Aborted
    /\ call' = <<"Memory::default">>
    /\ memory' = MemoryNew
    /\ result' = <<"Memory">>
    /\ UNCHANGED <<instr, encoder, opcode, decoded, cpuVars>>

\* Register::default
NewRegister ==
    /\ ~Aborted
    /\ call' = <<"Register::default">>
    /\ register' = RegisterDefault
    /\ result' = <<"Register">>
    /\ UNCHANGED <<instr, encoder, opcode, decoded, memory, engine, script>>

(***************************************************************************)
(* The ExecutionEngine of the design (sections 4.2, 4.3 and 7), stepping   *)
(* the Register bank of src/register.rs.  An instruction's outcome is the  *)
(* Register bank it leaves and the engine's next state.  Indexing an array *)
(* outside its index range panics, which aborts the process.               *)
(***************************************************************************)
StackDepth == 16     \* call beyond 16 nested levels is a stack overflow
VF         == \hF    \* the flag register

Outcome(r, state, error, awaiting) ==
    [register |-> r,
     engine   |-> [state |-> state, error |-> error, awaiting |-> awaiting]]

Continue(r)    == Outcome(r, "Ready", <<"None">>, <<>>)
Halt(r, error) == Outcome(r, "Halted", error, <<>>)
Abort(r)       == Outcome(r, "Aborted", Panic("index out of bounds"), <<>>)

\* call: push the current PC, increment SP, jump
exec_Call(r, addr) ==
    IF r.sp >= StackDepth THEN Halt(r, <<"StackOverflow">>)
    ELSE IF r.sp \notin DOMAIN r.stack THEN Abort(r)
    ELSE Continue([r EXCEPT !.stack[r.sp] = r.pc, !.sp = r.sp + 1, !.pc = addr])

\* return: pop the stack into PC
exec_Return(r) ==
    IF r.sp = 0 THEN Halt(r, <<"StackUnderflow">>)
    ELSE IF r.sp - 1 \notin DOMAIN r.stack THEN Abort(r)
    ELSE Continue([r EXCEPT !.sp = r.sp - 1, !.pc = r.stack[r.sp - 1]])

exec_Jump(r, addr) == Continue([r EXCEPT !.pc = addr])

exec_LoadImmediate(r, x, kk) ==
    IF x \notin DOMAIN r.v THEN Abort(r)
    ELSE Continue([r EXCEPT !.v[x] = kk])

\* Vx = (Vx + Vy) mod 256, then VF = carry
exec_Add(r, x, y) ==
    IF ~({x, y} \subseteq DOMAIN r.v) THEN Abort(r)
    ELSE LET sum == r.v[x] + r.v[y]
             r1  == [r EXCEPT !.v[x] = sum % 256]
         IN  IF VF \notin DOMAIN r.v THEN Abort(r1)
             ELSE Continue([r1 EXCEPT !.v[VF] = IF sum > 255 THEN 1 ELSE 0])

\* the blocking key read suspends the engine until a key arrives for Vx
exec_LoadKey(r, x) == Outcome(r, "AwaitingKey", <<"None">>, <<x>>)

exec_Exit(r) == Halt(r, <<"None">>)

execute(r, ins) ==
    CASE ins[1] = "Call"          -> exec_Call(r, ins[2])
      [] ins[1] = "Return"        -> exec_Return(r)
      [] ins[1] = "Jump"          -> exec_Jump(r, ins[2])
      [] ins[1] = "LoadImmediate" -> exec_LoadImmediate(r, ins[2], ins[3])
      [] ins[1] = "Add"           -> exec_Add(r, ins[2], ins[3])
      [] ins[1] = "LoadKey"       -> exec_LoadKey(r, ins[2])
      [] ins[1] = "Exit"          -> exec_Exit(r)

\* The instruction the next fetch yields.
Fetched == script.program[script.next]

\* step(): in Ready, fetch, advance PC by 2, execute; in AwaitingKey, nothing
Step ==
    /\ engine.state \in {"Ready", "AwaitingKey"}
    /\ IF engine.state = "AwaitingKey"
       THEN UNCHANGED <<register, engine, script>>
       ELSE /\ script.next <= Len(script.program)
            /\ LET r == [register EXCEPT !.pc = (register.pc + 2) % MEMORY_SIZE]
                   o == execute(r, Fetched)
               IN  register' = o.register /\ engine' = o.engine
            /\ script' = [script EXCEPT !.next = script.next + 1]
    /\ UNCHANGED <<instr, encoder, opcode, decoded, memory, call, result>>

\* the caller delivers a key event: the awaited register is filled and the
\* engine is Ready again
KeyEvent(key) ==
    /\ engine.state = "AwaitingKey"
    /\ LET x == engine.awaiting[1] IN
         IF x \notin DOMAIN register.v
         THEN engine' = Abort(register).engine /\ register' = register
         ELSE engine' = Continue(register).engine
              /\ register' = [register EXCEPT !.v[x] = key]
    /\ UNCHANGED <<instr, encoder, opcode, decoded, memory, call, result, script>>

(***************************************************************************)
(* The codec's specification.  Init draws the input: an Instruction to     *)
(* encode, or a raw word wrapped by OpCode::new.                           *)
(***************************************************************************)
Init ==
    /\ \/ /\ instr \in Instruction
          /\ encoder = "none"
          /\ opcode = -1
       \/ /\ instr = <<>>
          /\ encoder = "new"
          /\ opcode \in {OpCodeNew(w) : w \in Word}
    /\ decoded = <<>>
    /\ memory = MemoryNew
    /\ call = NoCall
    /\ result = NoResult
    /\ register = RegisterDefault
    /\ engine = EngineNew
    /\ script = NoScript

\* let op: OpCode = instr.into(), with the OpCode of src/opcode.rs
Into ==
    /\ instr # <<>>
    /\ encoder = "none"
    /\ opcode' = From(instr)
    /\ encoder' = "opcode"
    /\ UNCHANGED <<instr, decoded, memory, call, result, cpuVars>>

\* let op: OpCode = instr.into(), with the OpCode of src/instructions.rs
instructions_Into ==
    /\ instr # <<>>
    /\ encoder = "none"
    /\ opcode' = instructions_From(instr)
    /\ encoder' = "instructions"
    /\ UNCHANGED <<instr, decoded, memory, call, result, cpuVars>>

\* decode(op) of an OpCode, whichever way it was constructed
Decode ==
    /\ encoder # "none"
    /\ decoded = <<>>
    /\ decoded' = decode(opcode)
    /\ UNCHANGED <<instr, encoder, opcode, memory, call, result, cpuVars>>

Next == Into \/ instructions_Into \/ Decode

Spec == Init /\ [][Next]_vars

(***************************************************************************)
(* The encoders on every value of the payload types.  The payloads of enum *)
(* Instruction are raw u8 and u16, so a register or a 4-bit literal may be *)
(* any u8 and an address any u16: InitWide draws operands whose bits above *)
(* the field are 0, 1 or all ones.                                         *)
(***************************************************************************)
WideNibble == {k + 16 * h : k \in {0, 1, 15}, h \in {0, 1, 15}}
WideAddr   == {a + 4096 * h : a \in {0, 1, \hABC, 4095}, h \in {0, 1, 15}}

WideInstruction ==
    {<<n>> : n \in NoOperandOps}
    \cup {<<"ScrollDown", k>> : k \in WideNibble}
    \cup {<<n, a>> : n \in AddrOps, a \in WideAddr}
    \cup {<<n, x, kk>> : n \in RegByteOps, x \in WideNibble, kk \in ProbeByte}
    \cup {<<n, x, y>> : n \in RegRegOps, x \in WideNibble, y \in WideNibble}
    \cup {<<"Draw", x, y, k>> : x \in WideNibble, y \in WideNibble, k \in WideNibble}
    \cup {<<n, x>> : n \in RegOps, x \in WideNibble}

InitWide ==
    /\ instr \in WideInstruction
    /\ encoder = "none"
    /\ opcode = -1
    /\ decoded = <<>>
    /\ memory = MemoryNew
    /\ call = NoCall
    /\ result = NoResult
    /\ register = RegisterDefault
    /\ engine = EngineNew
    /\ script = NoScript

SpecWide == InitWide /\ [][Next]_vars

(***************************************************************************)
(* The Memory's specification: a fresh Memory, then any sequence of get,   *)
(* get_mut and stores through the reference get_mut returned.              *)
(***************************************************************************)
InitMem ==
    /\ instr = <<>>
    /\ encoder = "none"
    /\ opcode = -1
    /\ decoded = <<>>
    /\ memory = MemoryNew
    /\ call = NoCall
    /\ result = NoResult
    /\ register = RegisterDefault
    /\ engine = EngineNew
    /\ script = NoScript

NextMem ==
    \/ \E idx \in ProbeAddr : Get(idx)
    \/ \E idx \in ProbeAddr : GetMut(idx)
    \/ \E b \in ProbeByte : StoreRef(b)

SpecMem == InitMem /\ [][NextMem]_vars

(***************************************************************************)
(* Creating and loading the machine's state: the constructors, the load    *)
(* operations and the checked accesses, from a new Memory and Register.    *)
(* A panic aborts the process: nothing runs after it.                      *)
(***************************************************************************)
InitLoad == InitMem

NextLoad ==
    \/ MemoryDefault
    \/ NewRegister
    \/ \E n \in ProbeLen : Write(n)
    \/ \E n \in ProbeLen : FromSlice(n)
    \/ \E n \in ProbeLen : TryFromFile(n)
    \/ \E n \in ProbeLen : TryFromPath(n)
    \/ \E idx \in ProbeAddr : ~Aborted /\ Get(idx)
    \/ \E idx \in ProbeAddr : ~Aborted /\ GetMut(idx)

SpecLoad == InitLoad /\ [][NextLoad]_vars

(***************************************************************************)
(* The engine's specification.  Init draws the program the fetches yield:  *)
(* n nested calls followed by n returns, for n up to MaxNest, or any       *)
(* sequence of at most MaxProgram instructions over the registers V0, VE   *)
(* and VF and the bytes 0 .. MaxVal and 255.  The machine starts reset,    *)
(* with PC at the program's origin.                                        *)
(***************************************************************************)
MaxNest    == 17
MaxProgram == 3

\* the target of the k-th nested call
CallTarget(k) == MEMORY_START + 16 * k

Nest(n) == [j \in 1 .. 2 * n |-> IF j <= n THEN <<"Call", CallTarget(j)>>
                                          ELSE <<"Return">>]

ProbeReg == {0, VF - 1, VF}
ProbeKey == (0 .. MaxVal) \cup {15}

ProbeInstr ==
    {<<"LoadImmediate", x, kk>> : x \in ProbeReg, kk \in ProbeByte}
    \cup {<<"Add", x, y>> : x \in ProbeReg, y \in ProbeReg}
    \cup {<<"LoadKey", x>> : x \in ProbeReg}
    \cup {<<"Call", CallTarget(1)>>, <<"Return">>, <<"Jump", MEMORY_START>>,
          <<"Exit">>}

Programs ==
    {Nest(n) : n \in 0 .. MaxNest}
    \cup UNION {[1 .. k -> ProbeInstr] : k \in 0 .. MaxProgram}

InitEngine ==
    /\ instr = <<>>
    /\ encoder = "none"
    /\ opcode = -1
    /\ decoded = <<>>
    /\ memory = MemoryNew
    /\ call = NoCall
    /\ result = NoResult
    /\ register = [RegisterDefault EXCEPT !.pc = MEMORY_START]
    /\ engine = EngineNew
    /\ script \in {[program |-> p, next |-> 1] : p \in Programs}

NextEngine ==
    \/ Step
    \/ \E key \in ProbeKey : KeyEvent(key)

SpecEngine == InitEngine /\ [][NextEngine]_vars

(***************************************************************************)
(*                         The claims, C1 .. C10                           *)
(***************************************************************************)

\* The states in which an encoder has produced `opcode` from `instr`.
Encoded == encoder \in {"opcode", "instructions"}

\* The word the opcode table documents for each operand-less instruction.
FixedWord(n) ==
    CASE n = "ScrollRight" -> \h00FB
      [] n = "ScrollLeft"  -> \h00FC
      [] n = "Exit"        -> \h00FD
      [] n = "LowRes"      -> \h00FE
      [] n = "HighRes"     -> \h00FF
      [] n = "ClearScreen" -> \h00E0
      [] n = "Return"      -> \h00EE

\* The opcode nibble (bits 12..15) the table documents for each variant.
TopNibble(n) ==
    CASE n = "Jump" -> 1
      [] n = "Call" -> 2
      [] n = "SkipEqualImmediate" -> 3
      [] n = "SkipNotEqualImmediate" -> 4
      [] n = "SkipEqual" -> 5
      [] n = "LoadImmediate" -> 6
      [] n = "AddImmediate" -> 7
      [] n \in {"Load", "Or", "And", "Xor", "Add", "Sub", "ShiftRight",
                "SubNumeric", "ShiftLeft"} -> 8
      [] n = "SkipNotEqual" -> 9
      [] n = "LoadI" -> 10
      [] n = "JumpImmediate" -> 11
      [] n = "Random" -> 12
      [] n = "Draw" -> 13
      [] n \in {"SkipOnKey", "SkipNotOnKey"} -> 14
      [] n \in RegOps \ {"SkipOnKey", "SkipNotOnKey"} -> 15

\* The sub-opcode the table documents: the low byte of the register
\* instructions, the low nibble of the two-register instructions.
SubOpcode(n) ==
    CASE n = "SkipOnKey"       -> \h9E
      [] n = "SkipNotOnKey"    -> \hA1
      [] n = "LoadDTIntoV"     -> \h07
      [] n = "LoadKey"         -> \h0A
      [] n = "LoadVIntoDT"     -> \h15
      [] n = "LoadVIntoST"     -> \h18
      [] n = "AddI"            -> \h1E
      [] n = "LoadSpriteIntoI" -> \h29
      [] n = "LoadBCDIntoI"    -> \h33
      [] n = "LoadVIntoMem"    -> \h55
      [] n = "LoadMemIntoV"    -> \h65
      [] n \in {"SkipEqual", "Load", "SkipNotEqual"} -> 0
      [] n = "Or"         -> 1
      [] n = "And"        -> 2
      [] n = "Xor"        -> 3
      [] n = "Add"        -> 4
      [] n = "Sub"        -> 5
      [] n = "ShiftRight" -> 6
      [] n = "SubNumeric" -> 7
      [] n = "ShiftLeft"  -> 14

(* C1: round-trip identity: whenever an encoder of the repository has      *)
(* encoded an in-range instruction and the decoder has decoded the         *)
(* resulting word, the decoded instruction is exactly the encoded one.     *)
C1_RoundTrip ==
    (Encoded /\ decoded # <<>>) => decoded = instr

(* C2: every encoder maps each operand-less instruction to its fixed word  *)
(* (ScrollRight 00FB, ScrollLeft 00FC, Exit 00FD, LowRes 00FE, HighRes     *)
(* 00FF, ClearScreen 00E0, Return 00EE).                                   *)
C2_FixedWords ==
    (Encoded /\ instr[1] \in NoOperandOps) => opcode = FixedWord(instr[1])

(* C3: every encoder lays a register + 8-bit sub-opcode instruction out as *)
(* (o << 12) | (x << 8) | oo.                                              *)
C3_RegisterSubOpcode ==
    (Encoded /\ instr[1] \in RegOps) =>
        opcode = TopNibble(instr[1]) * 4096 + instr[2] * 256 + SubOpcode(instr[1])

(* C4: an address instruction encodes as (o << 12) | a and a register +    *)
(* byte instruction as (o << 12) | (x << 8) | kk, o being the variant's    *)
(* opcode nibble (1, 2, A, B and 3, 4, 6, 7, C).                           *)
C4_AddressAndImmediate ==
    /\ (Encoded /\ instr[1] \in AddrOps) =>
          opcode = TopNibble(instr[1]) * 4096 + instr[2]
    /\ (Encoded /\ instr[1] \in RegByteOps) =>
          opcode = TopNibble(instr[1]) * 4096 + instr[2] * 256 + instr[3]

\* C4's case: Jump(0xABC) has been encoded, to 0x1ABC.
C4_Witness ==
    /\ encoder = "opcode"
    /\ instr = <<"Jump", \hABC>>
    /\ opcode = \h1ABC

(* C5: a two-register instruction encodes as (o << 12) | (x << 8) |        *)
(* (y << 4) | s, and Draw(x, y, k) as Dxyk: the first operand in bits      *)
(* 8..11, the second in bits 4..7.                                         *)
C5_TwoRegisters ==
    /\ (Encoded /\ instr[1] \in RegRegOps) =>
          opcode = TopNibble(instr[1]) * 4096 + instr[2] * 256 + instr[3] * 16
                     + SubOpcode(instr[1])
    /\ (Encoded /\ instr[1] = "Draw") =>
          opcode = 13 * 4096 + instr[2] * 256 + instr[3] * 16 + instr[4]

\* C5's case: Draw(0xA, 0xB, 0xC) has been encoded, to 0xDABC.
C5_Witness ==
    /\ encoder = "opcode"
    /\ instr = <<"Draw", \hA, \hB, \hC>>
    /\ opcode = \hDABC

(* C6: in both encoders ScrollDown(k) encodes to 0x00C0 | k for every      *)
(* 4-bit k.                                                                *)
C6_ScrollDown ==
    (Encoded /\ instr[1] = "ScrollDown") => opcode = \h00C0 + instr[2]

\* C6's case: the encoder of instructions.rs has encoded ScrollDown(0xA).
C6_Witness ==
    /\ encoder = "instructions"
    /\ instr = <<"ScrollDown", \hA>>
    /\ opcode = \h00CA

\* The encoder named by `encoder`, applied to j.
EncodeWith(e, j) == IF e = "opcode" THEN From(j) ELSE instructions_From(j)

(* C7: encoding is injective: no instruction other than the encoded one    *)
(* encodes (with the same encoder) to the same word.                       *)
C7_Injective ==
    Encoded => \A j \in Instruction : j # instr => EncodeWith(encoder, j) # opcode

\* The supported opcode table: the words the instruction set encodes to.
SupportedWords == {From(i) : i \in Instruction}

(* C8: decoding a word outside the supported opcode table yields           *)
(* DecodeError carrying that word, never an instruction.                   *)
C8_DecodeError ==
    (decoded # <<>> /\ opcode \notin SupportedWords) => decoded = DecodeError(opcode)

\* C8's case: the unsupported word 0x5AB1 has been decoded.
C8_Witness ==
    /\ encoder = "new"
    /\ opcode = \h5AB1
    /\ decoded = DecodeError(\h5AB1)

(* C9: a get or get_mut with an address >= 4096 returns OutOfBoundsAccess  *)
(* carrying exactly that address and leaves every memory byte unchanged.   *)
C9_OutOfBounds ==
    [][(call'[1] \in {"get", "get_mut"} /\ call'[2] >= MEMORY_SIZE) =>
          (result' = OutOfBoundsAccess(call'[2]) /\ memory' = memory)]_vars

\* C9's case: after a byte was stored, get_mut was called with an address
\* that aliases a valid one modulo the store's size, and reported it.
C9_Witness ==
    /\ call = <<"get_mut", MEMORY_SIZE + MEMORY_START>>
    /\ result = OutOfBoundsAccess(MEMORY_SIZE + MEMORY_START)
    /\ ByteAt(memory, MEMORY_START) = 255

(* C10: get and get_mut succeed for every address 0x000 .. 0xFFF,          *)
(* the reserved region 0x000 .. 0x1FF included.                            *)
C10_WholeStoreAccessible ==
    (call[1] \in {"get", "get_mut"} /\ call[2] \in 0 .. MEMORY_SIZE - 1) =>
        result[1] \in {"Ok", "OkMut"}

(***************************************************************************)
(*                         The claims, C11 .. C22                          *)
(***************************************************************************)

\* The size of the program region, MEMORY_START .. MEMORY_SIZE.
ProgramRoom == MEMORY_SIZE - MEMORY_START

(* C11: a buffer that fits the program region (at most 0xE00 bytes), given *)
(* to write or to From<&[u8]>, is loaded without a panic and lies in       *)
(* memory from MEMORY_START on: memory[MEMORY_START + i] = buf[i].         *)
C11_FittingLoad ==
    (call[1] \in {"write", "from"} /\ call[2] <= ProgramRoom)
        => /\ result[1] # "Panic"
           /\ \A i \in 0 .. call[2] - 1 :
                 ByteAt(memory, MEMORY_START + i) = BufByte(call[2], i)

\* The calls that load a buffer or a file, of call[2] bytes.
Loading == call[1] \in {"write", "from", "try_from(File)", "try_from(Path)"}

(* C12: a load of more bytes than the program region holds (more than      *)
(* 0xE00 from the origin 0x200), from a buffer or from a file, returns an  *)
(* error: it neither panics nor succeeds with a truncated prefix.          *)
C12_OversizedLoadFails ==
    (Loading /\ call[2] > ProgramRoom) => result[1] = "Err"

\* The same for the loads from a file alone, which never panic.
C12_OversizedFileFails ==
    (call[1] \in {"try_from(File)", "try_from(Path)"} /\ call[2] > ProgramRoom)
        => result[1] = "Err"

(* C13: newly created state is all zero.  Memory::new / Memory::default    *)
(* give 4096 bytes, each 0; Register::default gives every general          *)
(* register, I, DT, ST, PC, SP and every stack slot 0.                     *)
C13_CreatedZeroed ==
    /\ call[1] \in {"None", "Memory::default"}
          => /\ memory.len = 4096
             /\ \A a \in Indices(memory) : ByteAt(memory, a) = 0
    /\ call[1] \in {"None", "Register::default"}
          => /\ \A x \in DOMAIN register.v : register.v[x] = 0
             /\ \A l \in DOMAIN register.stack : register.stack[l] = 0
             /\ register.i = 0 /\ register.dt = 0 /\ register.st = 0
             /\ register.pc = 0 /\ register.sp = 0

\* Memory::default has just returned the Memory of the program.
C13_Witness ==
    /\ call = <<"Memory::default">>
    /\ result = <<"Memory">>
    /\ memory.len = 4096
    /\ memory.nz = <<>>

\* The register indices an instruction carries as operands (x, and y).
RegisterOperands(i) ==
    CASE i = <<>> -> {}
      [] i # <<>> /\ i[1] \in RegByteOps \cup RegOps -> {i[2]}
      [] i # <<>> /\ i[1] \in RegRegOps \cup {"Draw"} -> {i[2], i[3]}
      [] OTHER -> {}

(* C14: the register bank holds 16 general registers, V0 .. VF: every      *)
(* register index an instruction can carry as an operand, 0 .. 15 with     *)
(* 0xF included, is the index of a register that exists.                   *)
C14_SixteenRegisters ==
    RegisterOperands(instr) \subseteq DOMAIN register.v

(* C15: the call stack has a fixed depth of exactly 16 slots for return    *)
(* addresses.                                                              *)
C15_SixteenStackSlots ==
    Cardinality(DOMAIN register.stack) = 16

\* The address the k-th nested call of Nest(n) pushes: the PC after its
\* fetch, two past the origin or past the target of the call before it.
ReturnAddress(k) == (IF k = 1 THEN MEMORY_START ELSE CallTarget(k - 1)) + 2

(* C16: stack balance.  N nested calls followed by N returns, for N up to  *)
(* 16, run without an error and leave PC at the value it had when the      *)
(* first call executed and SP at its original depth, 0.  The call beyond   *)
(* 16 nested levels reports StackOverflow and leaves the 16 entries pushed *)
(* before it as they were.                                                 *)
C16_StackBalance ==
    /\ \A n \in 1 .. StackDepth :
          script.program = Nest(n) =>
             /\ engine.state = "Ready"
             /\ script.next = 2 * n + 1 =>
                   register.pc = ReturnAddress(1) /\ register.sp = 0
    /\ \A n \in StackDepth + 1 .. MaxNest :
          script.program = Nest(n) =>
             /\ script.next <= StackDepth + 1 => engine.state = "Ready"
             /\ script.next = StackDepth + 2 =>
                   /\ engine.state = "Halted"
                   /\ engine.error = <<"StackOverflow">>
                   /\ \A l \in 0 .. StackDepth - 1 :
                         l \in DOMAIN register.stack
                         /\ register.stack[l] = ReturnAddress(l + 1)

\* The step is a fetch of the engine in the Ready state.
Fetching ==
    /\ engine.state = "Ready"
    /\ script.next <= Len(script.program)
    /\ script'.next = script.next + 1

(* C17: the engine enters AwaitingKey only by executing LoadKey; while it  *)
(* is AwaitingKey a step leaves the registers, the memory and PC as they   *)
(* are; the delivery of a key stores the key in the register LoadKey       *)
(* named and returns the engine to Ready.                                  *)
C17_AwaitingKey ==
    [][/\ (engine.state # "AwaitingKey" /\ engine'.state = "AwaitingKey")
            => (Fetching /\ Fetched[1] = "LoadKey"
                /\ engine'.awaiting = <<Fetched[2]>>)
       /\ (engine.state = "AwaitingKey" /\ engine'.state = "AwaitingKey")
            => UNCHANGED <<register, memory>>
       /\ (engine.state = "AwaitingKey" /\ engine'.state # "AwaitingKey")
            => /\ engine'.state = "Ready"
               /\ engine.awaiting[1] \in DOMAIN register.v
               /\ \E key \in Nibble :
                     register' = [register EXCEPT !.v[engine.awaiting[1]] = key]
               /\ memory' = memory
      ]_vars

(* C18: Add(Vx, Vy) executed with Vx = a and Vy = b leaves (a + b) mod 256 *)
(* in Vx and sets VF to 1 if a + b > 255 and to 0 otherwise, for the       *)
(* registers x other than VF itself.                                       *)
C18_AddCarry ==
    [][(Fetching /\ Fetched[1] = "Add" /\ Fetched[2] # VF)
          => LET x == Fetched[2]
                 y == Fetched[3]
             IN  /\ {x, y, VF} \subseteq DOMAIN register.v
                 /\ engine'.state = "Ready"
                 /\ register'.v[x] = (register.v[x] + register.v[y]) % 256
                 /\ register'.v[VF] =
                       IF register.v[x] + register.v[y] > 255 THEN 1 ELSE 0
      ]_vars

(* C19: io::Write::write stores at most 0xE00 bytes and returns Ok(n) with *)
(* n = min(buf.len(), 0xE00), for a buffer of every length.                *)
C19_WriteReturnsCount ==
    call[1] = "write"
        => result = <<"Ok", IF call[2] < ProgramRoom THEN call[2] ELSE ProgramRoom>>

(* C20: after any sequence of Memory operations (new, write, the loads     *)
(* from a buffer or a file, get, get_mut) the backing store has exactly    *)
(* 4096 bytes and every index check_idx accepts is below that length, so   *)
(* the unchecked accesses of get and get_mut stay inside the store.        *)
C20_StoreLength ==
    /\ memory.len = 4096
    /\ \A idx \in ProbeAddr :
          check_idx(idx)[1] = "Ok" => check_idx(idx)[2] \in Indices(memory)
    /\ (call[1] \in {"get", "get_mut"} /\ result[1] \in {"Ok", "OkMut"})
          => result[2] \in Indices(memory)

\* get_mut has returned a reference to the last byte of a store that a
\* file was loaded into.
C20_Witness ==
    /\ call = <<"get_mut", MEMORY_SIZE - 1>>
    /\ result = <<"OkMut", MEMORY_SIZE - 1>>
    /\ memory.nz # <<>>

\* The Vec m differs from the Vec base at most in the bytes
\* MEMORY_START .. MEMORY_START + n - 1.
SameOutside(m, base, n) ==
    /\ m.len = base.len
    /\ \A a \in DOMAIN m.nz \cup DOMAIN base.nz :
          (a < MEMORY_START \/ a >= MEMORY_START + n)
              => ByteAt(m, a) = ByteAt(base, a)

(* C21: a load (write, From<&[u8]>, TryFrom<File>) of n bytes modifies the *)
(* program region only: the bytes of the reserved region 0x000 .. 0x1FF    *)
(* and the bytes after the end of the loaded data keep the values they had *)
(* before, in the Memory written to or in the new Memory a constructor     *)
(* starts from.                                                            *)
C21_LoadFrame ==
    [][/\ call'[1] = "write" => SameOutside(memory', memory, call'[2])
       /\ (call'[1] \in {"from", "try_from(File)", "try_from(Path)"}
           /\ result'[1] \in {"Ok", "Memory"})
            => SameOutside(memory', MemoryNew, call'[2])
      ]_vars

\* A file shorter than the program region has been loaded: its first byte
\* lies at MEMORY_START.
C21_Witness ==
    /\ call[1] = "try_from(File)"
    /\ call[2] \in 1 .. ProgramRoom - 1
    /\ result = <<"Ok", "Memory">>
    /\ ByteAt(memory, MEMORY_START) = BufByte(call[2], 0)

\* The instruction i with every operand reduced to the width of its field:
\* 4 bits for a register or a literal, 8 for a byte, 12 for an address.
Narrow(i) ==
    CASE i[1] \in NoOperandOps -> i
      [] i[1] = "ScrollDown"   -> <<i[1], i[2] % 16>>
      [] i[1] \in AddrOps      -> <<i[1], i[2] % 4096>>
      [] i[1] \in RegByteOps   -> <<i[1], i[2] % 16, i[3] % 256>>
      [] i[1] \in RegRegOps    -> <<i[1], i[2] % 16, i[3] % 16>>
      [] i[1] = "Draw"         -> <<i[1], i[2] % 16, i[3] % 16, i[4] % 16>>
      [] i[1] \in RegOps       -> <<i[1], i[2] % 16>>

(* C22: encoding never fails and the operand fields are isolated.  For any *)
(* operand of the payload type, wider than its field or not, the encoder   *)
(* returns a 16-bit opcode, the one of the instruction whose operands are  *)
(* the low bits that fit their fields: the excess high bits are discarded  *)
(* and the opcode nibble, the sub-opcode and the other fields are those of *)
(* that instruction.                                                       *)
C22_FieldsIsolated ==
    Encoded => /\ opcode \in Word
               /\ Narrow(instr) \in Instruction
               /\ opcode = EncodeWith(encoder, Narrow(instr))

\* An instruction with an operand wider than its field has been encoded.
C22_Witness ==
    /\ Encoded
    /\ instr # Narrow(instr)
    /\ opcode = EncodeWith(encoder, Narrow(instr))

====
